---- MODULE Spec2Model ----
(***************************************************************************)
(* slime_shapes/shapes.py: the layout engine get_positions (rejection      *)
(* sampling of non-intersecting square bounding boxes) and the shape       *)
(* rasterizer (Square._mask, Circle._mask, Shape.add_to_image).            *)
(***************************************************************************)
EXTENDS Integers, Sequences, FiniteSets, TLC

VARIABLES
    canvas_size,    \* get_positions' argument
    count,          \* get_positions' argument
    float_randint,  \* whether the interpreter's randint takes an integral float
    positions,      \* the list get_positions builds
    pc,             \* where the call is: "add", "done", "raised", "painting", "call", "called"
    target,         \* the caller's pixel buffer, <<>> before create_canvas
    shapes,         \* the caller's shapes, one per non-canvas position
    painted,        \* the indices of the shapes already added to the image
    arg,            \* the arguments of a direct call of a rasterizer or Position method
    result          \* what that call returned

vars == <<canvas_size, count, float_randint, positions, pc, target, shapes, painted, arg, result>>

paint_vars == <<target, shapes, painted>>
call_vars == <<arg, result>>

(***************************************************************************)
(* Bounds of the model.                                                    *)
(***************************************************************************)
\* canvas_size ranges over 1..MaxCanvas
MaxCanvas == 20
\* count ranges over 0..MaxCount
MaxCount == 2
\* a modelled draw of randint(a, b) lies within Margin of a or of b
Margin == 1
\* a direct call's pixel grid has sides 1..MaxSide, its positions have
\* coordinates 0..MaxSide and sizes 0..MaxSide + 1
MaxSide == 4

(***************************************************************************)
(* Position (dataclass) and its intersection test.                         *)
(***************************************************************************)
Position(size, x_position, y_position) ==
    [size |-> size, x_position |-> x_position, y_position |-> y_position]

\* the second test bounded by x_1 + size_1, as the first is
Mutant_1d_intersect_endpoints(x_1, size_1, x_2, size_2) ==
    (x_1 <= x_2 /\ x_2 <= x_1 + size_1) \/ (x_1 <= x_2 + size_2 /\ x_2 + size_2 <= x_1 + size_1)

\* a <= b <= c is (a <= b) and (b <= c)
_1d_intersect(x_1, size_1, x_2, size_2) ==
    (x_1 <= x_2 /\ x_2 <= x_1 + size_1) \/ (x_1 <= x_2 + size_2 /\ x_2 + size_2 <= x_1 + size_2)

intersects(self, other) ==
    LET x_intersects == _1d_intersect(self.x_position, self.size, other.x_position, other.size)
        y_intersects == _1d_intersect(self.y_position, self.size, other.y_position, other.size)
    IN  x_intersects /\ y_intersects

(***************************************************************************)
(* get_positions.                                                          *)
(***************************************************************************)
\* randint(a, b) returns any integer of a..b; the model draws those within
\* margin of either end (all of a..b when margin >= b - a).
randint(a, b, margin) == {v \in a..b : v - a <= margin \/ b - v <= margin}

\* a // b, which rounds down and returns an int
Mutant_true_div_floor(a, b) == <<a \div b, 1>>

\* a / b: Python 3's float division, held as the fraction <<a, b>>
true_div(a, b) == <<a, b>>

\* int(x) == x, randrange's test of an argument
is_integral(q) == q[1] % q[2] = 0

\* randint(canvas_size/10, canvas_size/4): randrange takes a float only when it
\* is integral, and not at all from Python 3.12 on; {} stands for its ValueError
\* or TypeError.
shape_sizes(c, takes_float, margin) ==
    LET low == true_div(c, 10)
        high == true_div(c, 4)
    IN  IF takes_float /\ is_integral(low) /\ is_integral(high)
        THEN randint(low[1] \div low[2], high[1] \div high[2], margin)
        ELSE {}

randint_raises(c, takes_float) == shape_sizes(c, takes_float, 0) = {}

\* randint(0, canvas_size), the shape's size forgotten
Mutant_random_position_unclipped(c, takes_float, margin) ==
    UNION {{Position(shape_size, x_position, y_position) :
                x_position \in randint(0, c, margin),
                y_position \in randint(0, c, margin)} :
           shape_size \in shape_sizes(c, takes_float, margin)}

\* the positions random_position() can return
random_position(c, takes_float, margin) ==
    UNION {{Position(shape_size, x_position, y_position) :
                x_position \in randint(0, c - shape_size, margin),
                y_position \in randint(0, c - shape_size, margin)} :
           shape_size \in shape_sizes(c, takes_float, margin)}

\* positions[2:], the canvas and the first shape both skipped
Mutant_rejected_skip_first(new_position, ps) ==
    \E k \in 3..Len(ps) : intersects(new_position, ps[k])

\* positions[0:], the canvas tested too
Mutant_rejected_with_canvas(new_position, ps) ==
    \E k \in 1..Len(ps) : intersects(new_position, ps[k])

\* the loop over positions[1:] (Python's index 1 is index 2 of a TLA+ sequence)
rejected(new_position, ps) ==
    \E k \in 2..Len(ps) : intersects(new_position, ps[k])

\* positions.insert(0, new_position)
Mutant_accept_prepend(ps, new_position) == <<new_position>> \o ps

\* positions.append(new_position)
accept(ps, new_position) == Append(ps, new_position)

\* for _ in range(count): one more add() is due
adding == pc = "add" /\ Len(positions) - 1 < count

\* one iteration of add()'s while True, its draw among candidates
add_iteration(candidates) ==
    /\ adding
    /\ ~randint_raises(canvas_size, float_randint)
    /\ \E new_position \in candidates :
           IF rejected(new_position, positions)
           THEN UNCHANGED positions
           ELSE positions' = accept(positions, new_position)
    /\ UNCHANGED <<canvas_size, count, float_randint, pc>>

\* random_position()'s first randint raises ValueError or TypeError
add_raises ==
    /\ adding
    /\ randint_raises(canvas_size, float_randint)
    /\ pc' = "raised"
    /\ UNCHANGED <<canvas_size, count, float_randint, positions>>

\* the for loop is over: return positions
return_positions ==
    /\ pc = "add"
    /\ Len(positions) - 1 >= count
    /\ pc' = "done"
    /\ UNCHANGED <<canvas_size, count, float_randint, positions>>

\* a draw within Margin of an end of each randint range
add_window ==
    /\ add_iteration(random_position(canvas_size, float_randint, Margin))
    /\ UNCHANGED <<paint_vars, call_vars>>

raise_error == add_raises /\ UNCHANGED <<paint_vars, call_vars>>

return == return_positions /\ UNCHANGED <<paint_vars, call_vars>>

\* positions = [Position(canvas_size, 0, 0)]
InitLayout(sizes, counts) ==
    /\ canvas_size \in sizes
    /\ count \in counts
    /\ float_randint \in BOOLEAN
    /\ positions = <<Position(canvas_size, 0, 0)>>
    /\ pc = "add"

\* no canvas created and no shape built yet
NoPaint == target = <<>> /\ shapes = <<>> /\ painted = {}
\* no direct call of a method
NoCall == arg = <<>> /\ result = <<>>

Init == InitLayout(1..MaxCanvas, 0..MaxCount) /\ NoPaint /\ NoCall

Next == add_window \/ raise_error \/ return

Spec == Init /\ [][Next]_vars

(***************************************************************************)
(* Claims about get_positions, under Spec.                                 *)
(***************************************************************************)
\* C1: in every reachable state of get_positions, any two distinct non-canvas
\* positions do not intersect, whichever of the two is the receiver.
C1_PairwiseDisjoint ==
    \A i, j \in 2..Len(positions) :
        i # j => ~intersects(positions[i], positions[j])

\* two shapes were accepted, the second tested against the first only as receiver
C1_Witness == pc = "done" /\ Len(positions) = 3

\* C2: the first position is always the canvas, the list never holds more than
\* count + 1 positions and holds exactly count + 1 when the call returns, and
\* every step leaves the list alone or appends one position to it.
C2_CountAndCanvas ==
    /\ [](/\ Len(positions) >= 1
          /\ positions[1] = Position(canvas_size, 0, 0)
          /\ Len(positions) <= count + 1
          /\ (pc = "done" => Len(positions) = count + 1))
    /\ [][\/ positions' = positions
          \/ /\ Len(positions') = Len(positions) + 1
             /\ SubSeq(positions', 1, Len(positions)) = positions]_vars

\* a call with count > 0 has returned
C2_Witness == pc = "done" /\ count = MaxCount /\ Len(positions) = count + 1

\* C3: every position lies inside the canvas, and every non-canvas position's
\* size is between canvas_size/10 and canvas_size/4 (rounded down), inclusive.
C3_Bounds ==
    /\ \A i \in 1..Len(positions) :
           /\ 0 <= positions[i].x_position
           /\ positions[i].x_position + positions[i].size <= canvas_size
           /\ 0 <= positions[i].y_position
           /\ positions[i].y_position + positions[i].size <= canvas_size
    /\ \A i \in 2..Len(positions) :
           /\ canvas_size \div 10 <= positions[i].size
           /\ positions[i].size <= canvas_size \div 4

\* an accepted shape of the largest size touches the canvas' far edges
C3_Witness ==
    \E i \in 2..Len(positions) :
        /\ positions[i].size = canvas_size \div 4
        /\ positions[i].x_position + positions[i].size = canvas_size
        /\ positions[i].y_position + positions[i].size = canvas_size

\* C4: every position of the list has a size > 0, for every canvas_size >= 1.
C4_PositiveSize == \A i \in 1..Len(positions) : positions[i].size > 0

\* a shape was accepted; below 10 the call raises before it accepts any
C4_Witness == canvas_size >= 1 /\ Len(positions) >= 2 /\ positions[2].size > 0


(***************************************************************************)
(* The rasterizer: Square._mask and Circle._mask.                          *)
(***************************************************************************)
\* where a[start:stop] of an axis of length n begins or ends: a negative index
\* counts from the end, and the result is clamped to 0..n
slice_index(i, n) ==
    IF i < 0 THEN (IF i + n < 0 THEN 0 ELSE i + n) ELSE (IF i > n THEN n ELSE i)

\* the indices a[start:stop] selects
slice(start, stop, n) ==
    {i \in 0..(n - 1) : slice_index(start, n) <= i /\ i < slice_index(stop, n)}

\* the pixels of an array of shape[:2]
pixels(shape) == (0..(shape[1] - 1)) \X (0..(shape[2] - 1))

\* base[location[0]:self._position.size, ...], the location not added to the stop
Mutant_Square_mask_stop(position, shape, location) ==
    LET rows == slice(location[1], position.size, shape[1])
        columns == slice(location[2], position.size, shape[2])
    IN  [p \in pixels(shape) |-> p[1] \in rows /\ p[2] \in columns]

\* Square._mask: zeros(shape[:2]), then True on the two slices
Square_mask(position, shape, location) ==
    LET rows == slice(location[1], location[1] + position.size, shape[1])
        columns == slice(location[2], location[2] + position.size, shape[2])
    IN  [p \in pixels(shape) |-> p[1] \in rows /\ p[2] \in columns]

\* radius = size // 2
Mutant_Circle_radius_floor(position) == <<position.size \div 2, 1>>

\* radius = self._position.size / 2, a float held as a fraction
Circle_radius(position) == true_div(position.size, 2)

\* Circle._mask: with radius = n/d, (x_x - (l0 + radius))**2 + (y_y - (l1 + radius))**2
\* < radius**2, both sides multiplied by d*d (the floats are halves: exact)
Circle_mask(position, shape, location) ==
    LET radius == Circle_radius(position)
        n == radius[1]
        d == radius[2]
    IN  [p \in pixels(shape) |->
            (d * p[1] - (d * location[1] + n)) * (d * p[1] - (d * location[1] + n))
            + (d * p[2] - (d * location[2] + n)) * (d * p[2] - (d * location[2] + n))
            < n * n]

\* the mask add_to_image asks of a shape: self._mask(target.shape, (x, y))
shape_mask(kind, position, shape) ==
    IF kind = "Square"
    THEN Square_mask(position, shape, <<position.x_position, position.y_position>>)
    ELSE Circle_mask(position, shape, <<position.x_position, position.y_position>>)

(***************************************************************************)
(* Direct calls of the pure methods, their arguments drawn by Init.        *)
(***************************************************************************)
Coords == 0..MaxSide
Sizes == 0..(MaxSide + 1)
Sides == 1..MaxSide
SomePositions == {Position(s, x, y) : s \in Sizes, x \in Coords, y \in Coords}

MaskCalls ==
    {[fn |-> k, self |-> q, shape |-> <<h, w, 3>>, other |-> Position(0, 0, 0)] :
        k \in {"Square", "Circle"}, q \in SomePositions, h \in Sides, w \in Sides}

IntersectsCalls ==
    {[fn |-> "intersects", self |-> q, shape |-> <<1, 1, 3>>, other |-> o] :
        q \in SomePositions, o \in SomePositions}

InitCall ==
    /\ canvas_size = 0
    /\ count = 0
    /\ float_randint = TRUE
    /\ positions = <<>>
    /\ pc = "call"
    /\ NoPaint
    /\ arg \in MaskCalls \cup IntersectsCalls
    /\ result = <<>>

call_mask ==
    /\ pc = "call"
    /\ arg.fn \in {"Square", "Circle"}
    /\ result' = shape_mask(arg.fn, arg.self, arg.shape)
    /\ pc' = "called"
    /\ UNCHANGED <<canvas_size, count, float_randint, positions, paint_vars, arg>>

call_intersects ==
    /\ pc = "call"
    /\ arg.fn = "intersects"
    /\ result' = intersects(arg.self, arg.other)
    /\ pc' = "called"
    /\ UNCHANGED <<canvas_size, count, float_randint, positions, paint_vars, arg>>

NextCall == call_mask \/ call_intersects

SpecCall == InitCall /\ [][NextCall]_vars

called(fn) == pc = "called" /\ arg.fn = fn

\* C5: Square's mask is true at pixel (px, py) exactly when x <= px < x + size
\* and y <= py < y + size; for a position inside the grid it has size * size
\* true pixels.
C5_SquareMask ==
    called("Square") =>
        LET q == arg.self
        IN  /\ DOMAIN result = pixels(arg.shape)
            /\ \A p \in pixels(arg.shape) :
                   result[p] <=> /\ q.x_position <= p[1]
                                 /\ p[1] < q.x_position + q.size
                                 /\ q.y_position <= p[2]
                                 /\ p[2] < q.y_position + q.size
            /\ (q.x_position + q.size <= arg.shape[1] /\ q.y_position + q.size <= arg.shape[2])
                   => Cardinality({p \in pixels(arg.shape) : result[p]}) = q.size * q.size

\* a square that the grid cuts on both axes, with a pixel in its mask
C5_Witness ==
    /\ called("Square")
    /\ arg.self.x_position + arg.self.size > arg.shape[1]
    /\ arg.self.y_position + arg.self.size > arg.shape[2]
    /\ arg.shape[1] # arg.shape[2]
    /\ \E p \in pixels(arg.shape) : result[p]

\* the pixels of the claim's circle, in integers
InCircle(q, p) ==
    (2 * p[1] - 2 * q.x_position - q.size) * (2 * p[1] - 2 * q.x_position - q.size)
    + (2 * p[2] - 2 * q.y_position - q.size) * (2 * p[2] - 2 * q.y_position - q.size)
    < q.size * q.size

CentrePixel(q) == <<q.x_position + q.size \div 2, q.y_position + q.size \div 2>>
CornerPixel(q) == <<q.x_position, q.y_position>>

\* C6 as stated: Circle's mask is true at (px, py) iff (2 px - 2 x - size)^2 +
\* (2 py - 2 y - size)^2 < size^2, and for every position of size > 0 the centre pixel
\* (where the grid has it) is in the mask and the corner pixel is not.
C6_AsStated ==
    (called("Circle") /\ arg.self.size > 0) =>
        LET q == arg.self
        IN  /\ \A p \in pixels(arg.shape) : result[p] <=> InCircle(q, p)
            /\ CentrePixel(q) \in pixels(arg.shape) => result[CentrePixel(q)]
            /\ CornerPixel(q) \in pixels(arg.shape) => ~result[CornerPixel(q)]

\* C6 amended: the mask is as stated, the corner pixel is never in it, and the
\* centre pixel is in it when size >= 2 (for size 1 the centre pixel is the
\* corner pixel and the mask is empty).
C6_CircleMask ==
    called("Circle") =>
        LET q == arg.self
        IN  /\ DOMAIN result = pixels(arg.shape)
            /\ \A p \in pixels(arg.shape) : result[p] <=> InCircle(q, p)
            /\ (q.size >= 2 /\ CentrePixel(q) \in pixels(arg.shape)) => result[CentrePixel(q)]
            /\ CornerPixel(q) \in pixels(arg.shape) => ~result[CornerPixel(q)]
            /\ q.size <= 1 => \A p \in pixels(arg.shape) : ~result[p]

\* a circle of odd size whose centre and corner pixels are both on the grid
C6_Witness ==
    /\ called("Circle")
    /\ arg.self.size = 3
    /\ CentrePixel(arg.self) \in pixels(arg.shape)
    /\ result[CentrePixel(arg.self)]
    /\ ~result[CornerPixel(arg.self)]

\* the claim's 1-D test: an endpoint of the second interval in [x1, x1 + s1]
EndpointInside(x1, s1, x2, s2) ==
    (x1 <= x2 /\ x2 <= x1 + s1) \/ (x1 <= x2 + s2 /\ x2 + s2 <= x1 + s1)

\* the closed intervals [x1, x1 + s1] and [x2, x2 + s2] share a point
ClosedOverlap(x1, s1, x2, s2) == x2 <= x1 + s1 /\ x1 <= x2 + s2

\* C8 as stated: intersects is the conjunction, over the x- and the
\* y-projection, of "x2 or x2 + s2 lies in [x1, x1 + s1]".
C8_AsStated ==
    called("intersects") =>
        result = (/\ EndpointInside(arg.self.x_position, arg.self.size,
                                    arg.other.x_position, arg.other.size)
                  /\ EndpointInside(arg.self.y_position, arg.self.size,
                                    arg.other.y_position, arg.other.size))

\* C8 amended: the 1-D test is "x2 lies in [x1, x1 + s1] or x2 + s2 lies in
\* [x1, x1 + s2]", which for non-negative sizes holds exactly when the closed
\* intervals share a point; intersects is its conjunction over x and y.
C8_ClosedOverlap ==
    called("intersects") =>
        result = (/\ ClosedOverlap(arg.self.x_position, arg.self.size,
                                   arg.other.x_position, arg.other.size)
                  /\ ClosedOverlap(arg.self.y_position, arg.self.size,
                                   arg.other.y_position, arg.other.size))

\* the receiver lies strictly inside the other box: no endpoint of the other
\* is in the receiver's intervals, and intersects is true
C8_Witness ==
    /\ called("intersects")
    /\ result = TRUE
    /\ arg.other.x_position < arg.self.x_position
    /\ arg.self.x_position + arg.self.size < arg.other.x_position + arg.other.size
    /\ arg.other.y_position < arg.self.y_position
    /\ arg.self.y_position + arg.self.size < arg.other.y_position + arg.other.size


(***************************************************************************)
(* The caller: a canvas from positions[0], then one shape per position.    *)
(***************************************************************************)
ORANGE == <<255, 166, 0>>
PURPLE == <<88, 80, 141>>
SALMON == <<255, 99, 97>>
PINK == <<188, 87, 144>>
BLUE == <<0, 66, 92>>

\* the colour the caller gives the shape at index i: a preset, by index
Palette == <<PURPLE, SALMON, PINK, BLUE>>
shape_colour(i) == Palette[(i % Len(Palette)) + 1]

\* Square.create_canvas: zeros((size, size, 3)), then canvas[:, :] = colour
create_canvas(position, colour) ==
    [p \in pixels(<<position.size, position.size, 3>>) |-> colour]

\* target[mask] = colour assigns the pixels outside the mask
Mutant_add_to_image_inverted(buffer, shape, kind, position, colour) ==
    LET mask == shape_mask(kind, position, shape)
    IN  [p \in DOMAIN buffer |-> IF mask[p] THEN buffer[p] ELSE colour]

\* Shape.add_to_image: target[self._mask(target.shape, (x, y))] = self._colour
add_to_image(buffer, shape, kind, position, colour) ==
    LET mask == shape_mask(kind, position, shape)
    IN  [p \in DOMAIN buffer |-> IF mask[p] THEN colour ELSE buffer[p]]

\* a draw at an end of each randint range
add_corner ==
    /\ add_iteration(random_position(canvas_size, float_randint, 0))
    /\ UNCHANGED <<paint_vars, call_vars>>

\* the caller builds the canvas from positions[0] and a Square or a Circle for
\* each other position
make_canvas ==
    /\ pc = "done"
    /\ pc' = "painting"
    /\ target' = create_canvas(positions[1], ORANGE)
    /\ shapes' \in [2..Len(positions) -> {"Square", "Circle"}]
    /\ painted' = {}
    /\ UNCHANGED <<canvas_size, count, float_randint, positions, call_vars>>

\* the caller adds one of the shapes not yet added
paint ==
    /\ pc = "painting"
    /\ \E i \in (2..Len(positions)) \ painted :
           /\ target' = add_to_image(target, <<positions[1].size, positions[1].size, 3>>,
                                     shapes[i], positions[i], shape_colour(i))
           /\ painted' = painted \cup {i}
    /\ UNCHANGED <<canvas_size, count, float_randint, positions, pc, shapes, call_vars>>

NextPaint == add_corner \/ raise_error \/ return \/ make_canvas \/ paint

SpecPaint == Init /\ [][NextPaint]_vars

\* the mask of each shape on the canvas' grid
Masks ==
    [i \in 2..Len(positions) |->
        shape_mask(shapes[i], positions[i], <<canvas_size, canvas_size, 3>>)]

\* the shapes whose mask holds pixel p
Covering(masks, p) == {i \in DOMAIN masks : masks[i][p]}

\* C9: once every shape of a returned list is added, in whatever order, no
\* pixel is in the masks of two shapes, every pixel of a shape's mask has that
\* shape's colour and every other pixel has the canvas' colour.
C9_OrderIndependent ==
    (pc = "painting" /\ painted = 2..Len(positions)) =>
        LET masks == Masks
        IN  /\ DOMAIN target = pixels(<<canvas_size, canvas_size, 3>>)
            /\ \A p \in DOMAIN target :
                   /\ Cardinality(Covering(masks, p)) <= 1
                   /\ \A i \in Covering(masks, p) : target[p] = shape_colour(i)
                   /\ Covering(masks, p) = {} => target[p] = ORANGE

\* a square and a circle were both added, and both show
C9_Witness ==
    /\ pc = "painting"
    /\ Len(positions) = 3
    /\ painted = {2, 3}
    /\ shapes[2] # shapes[3]
    /\ \E p \in DOMAIN target : target[p] = shape_colour(2)
    /\ \E p \in DOMAIN target : target[p] = shape_colour(3)

(***************************************************************************)
(* get_positions on a full canvas: the first draws seeded, the rest free.  *)
(***************************************************************************)
\* the draws that a seed makes the first ones: eight boxes of the largest
\* size for canvas_size 20, no two intersecting
SeededDraws ==
    <<Position(5, 2, 2), Position(5, 2, 8), Position(5, 2, 14),
      Position(5, 8, 2), Position(5, 8, 8), Position(5, 8, 14),
      Position(5, 14, 2), Position(5, 14, 8)>>

\* count exceeds the seeded draws by 1..MaxExtra
MaxExtra == 2

\* a seeded draw: random_position() returns the next of SeededDraws
add_seeded ==
    /\ Len(positions) <= Len(SeededDraws)
    /\ add_iteration({SeededDraws[Len(positions)]}
                     \cap random_position(canvas_size, float_randint, canvas_size))
    /\ UNCHANGED <<paint_vars, call_vars>>

\* a free draw: random_position() returns any position of its sample space
add_any ==
    /\ Len(positions) > Len(SeededDraws)
    /\ add_iteration(random_position(canvas_size, float_randint, canvas_size))
    /\ UNCHANGED <<paint_vars, call_vars>>

InitFull ==
    /\ InitLayout({20}, (Len(SeededDraws) + 1)..(Len(SeededDraws) + MaxExtra))
    /\ NoPaint
    /\ NoCall

NextFull == add_seeded \/ add_any \/ raise_error \/ return

\* while it retries the loop draws each candidate again and again, so a
\* candidate that can be accepted is accepted; the other steps are plain code
SpecFull == InitFull /\ [][NextFull]_vars /\ WF_vars(NextFull)

\* the sample space of the claims: sizes canvas_size/10..canvas_size/4
\* (rounded down), boxes inside the canvas
SampleSpace ==
    UNION {{Position(s, x, y) : x \in 0..(canvas_size - s), y \in 0..(canvas_size - s)} :
           s \in (canvas_size \div 10)..(canvas_size \div 4)}

\* every candidate intersects some accepted non-canvas position
Blocked ==
    \A s \in (canvas_size \div 10)..(canvas_size \div 4) :
        \A x, y \in 0..(canvas_size - s) :
            \E k \in 2..Len(positions) : intersects(Position(s, x, y), positions[k])

\* the loop is retrying and can only reject
Stuck == pc = "add" /\ Len(positions) - 1 < count /\ ~randint_raises(canvas_size, float_randint) /\ Blocked

\* the list is an arrangement of count positions of the sample space, no two
\* intersecting
Arrangement ==
    /\ Len(positions) = count + 1
    /\ \A i \in 2..Len(positions) :
           /\ positions[i].size \in (canvas_size \div 10)..(canvas_size \div 4)
           /\ positions[i].x_position \in 0..(canvas_size - positions[i].size)
           /\ positions[i].y_position \in 0..(canvas_size - positions[i].size)
    /\ \A i, j \in 2..Len(positions) : i # j => ~intersects(positions[i], positions[j])

\* C7: the call returns only with an arrangement of count positions (so never
\* when there is none), and from a state in which every candidate intersects
\* an accepted position while a position is still due, no step changes the
\* list or leaves the loop.
\* (Stuck reads only canvas_size, count, float_randint, positions and pc, which
\* such a step leaves as they are: the next state is stuck too.)
C7_StuckForever ==
    /\ [](pc = "done" => Arrangement)
    /\ [][(positions' = positions /\ pc' = pc /\ pc # "done") \/ ~Stuck]_vars

\* nine boxes fill the canvas and more are due
C7_Witness == Stuck /\ Len(positions) = 10 /\ count >= 10

\* n boxes of the smallest size on a lattice of pitch size + 1: an arrangement
\* of n positions of the sample space, no two intersecting
Lattice(c) ==
    LET s == c \div 10
    IN  {Position(s, x, y) : x \in {k * (s + 1) : k \in 0..((c - s) \div (s + 1))},
                            y \in {k * (s + 1) : k \in 0..((c - s) \div (s + 1))}}

Feasible(c, n) ==
    /\ Lattice(c) \subseteq SampleSpace
    /\ \A q1, q2 \in Lattice(c) : q1 # q2 => ~intersects(q1, q2)
    /\ n <= Cardinality(Lattice(c))

\* C10 as stated: when an arrangement of count positions exists and randint
\* draws, a run that draws every candidate again and again returns.
C10_AsStated ==
    (Feasible(canvas_size, count) /\ ~randint_raises(canvas_size, float_randint))
        => <>(pc = "done")

\* C10 amended: such a run returns, ends in randint's error, or reaches a state
\* in which every candidate intersects an accepted position.
C10_ReturnsUnlessBlocked == <>(pc = "done" \/ pc = "raised" \/ Stuck)

\* a call that had to draw beyond the seeded positions has returned
C10_Witness == pc = "done" /\ Len(positions) = Len(SeededDraws) + MaxExtra + 1

====
